---- MODULE Spec2Model ----
(***************************************************************************)
(* Model of src/scripts/ci_build.py: the mapping from a CI target and the  *)
(* host parameters to configure flags, test command and make prefix        *)
(* (determine_flags, build_targets) and the driver that turns the plan     *)
(* into a command list and runs it (main, run_cmd).                        *)
(*                                                                         *)
(* A Python string is a tuple of atoms: a literal is one atom, and a       *)
(* formatted string ('--cc=%s' % x) is the literal part followed by the    *)
(* atoms of x.  A Python list of strings is a tuple of such strings.       *)
(***************************************************************************)
EXTENDS Integers, Sequences, FiniteSets, TLC

\* ------------------------------------------------------------------ bounds
MaxDisabled == 1   \* longest pre-seeded disabled-tests list
MaxCalls == 2      \* successive direct calls of determine_flags

\* ----------------------------------------------------------- Python values
\* None where a list of strings is expected
None == << <<"None">> >>
\* None where a string is expected
NoneStr == <<"None">>

S(a) == <<a>>

Range(s) == {s[i] : i \in 1..Len(s)}

\* sep.join(list)
RECURSIVE Join(_, _)
Join(list, sep) ==
    IF list = <<>> THEN <<>>
    ELSE IF Len(list) = 1 THEN list[1]
    ELSE list[1] \o <<sep>> \o Join(Tail(list), sep)

\* concatenation of a list of lists
RECURSIVE Concat(_)
Concat(lists) == IF lists = <<>> THEN <<>> ELSE lists[1] \o Concat(Tail(lists))

\* os.path.join(a, b)
path_join(a, b) == a \o <<"/">> \o b

\* index of the first element of list equal to x, 0 when absent
RECURSIVE IndexOf(_, _, _)
IndexOf(list, x, i) ==
    IF i > Len(list) THEN 0
    ELSE IF list[i] = x THEN i
    ELSE IndexOf(list, x, i + 1)

\* list.remove(x): drops the first x, raises ValueError when x is absent
list_remove(list, x) ==
    LET i == IndexOf(list, x, 1) IN
    IF i = 0 THEN [raised |-> TRUE, list |-> list]
    ELSE [raised |-> FALSE,
          list |-> SubSeq(list, 1, i - 1) \o SubSeq(list, i + 1, Len(list))]

\* ----------------------------------------------------------------- targets
cross_android_arm32 == <<"cross-", "android-arm32">>
cross_android_arm64 == <<"cross-", "android-arm64">>
cross_arm32 == <<"cross-", "arm32">>
cross_arm64 == <<"cross-", "arm64">>
cross_i386 == <<"cross-", "i386">>
cross_ios_arm64 == <<"cross-", "ios-arm64">>
cross_mips64 == <<"cross-", "mips64">>
cross_ppc32 == <<"cross-", "ppc32">>
cross_ppc64 == <<"cross-", "ppc64">>
cross_win64 == <<"cross-", "win64">>

known_targets ==
    { S("amalgamation"), S("baremetal"), S("bsi"), S("coverage"),
      cross_android_arm32, cross_android_arm64, cross_arm32, cross_arm64,
      cross_i386, cross_ios_arm64, cross_mips64, cross_ppc32, cross_ppc64,
      cross_win64, S("docs"), S("emscripten"), S("fuzzers"), S("lint"),
      S("minimized"), S("nist"), S("sanitizer"), S("shared"), S("static"),
      S("valgrind") }

\* target.startswith('cross-')
is_cross_target(target) == target[1] = "cross-"

\* ------------------------------------------------------------ build_targets
\* lines 57-67 with the OS rules tried before the target rules
library_flavor_os_first(target, target_os) ==
    IF target_os \in {S("windows")} THEN <<S("shared")>>
    ELSE IF target_os \in {S("ios"), S("mingw")} THEN <<S("static")>>
    ELSE IF target \in {S("shared"), S("minimized"), S("bsi"), S("nist")} THEN <<S("shared")>>
    ELSE IF target \in {S("static"), S("fuzzers"), S("baremetal"), S("emscripten")} THEN <<S("static")>>
    ELSE <<S("shared"), S("static")>>

\* lines 57-67: the library flavour, first matching rule
library_flavor(target, target_os) ==
    IF target \in {S("shared"), S("minimized"), S("bsi"), S("nist")} THEN <<S("shared")>>
    ELSE IF target \in {S("static"), S("fuzzers"), S("baremetal"), S("emscripten")} THEN <<S("static")>>
    ELSE IF target_os \in {S("windows")} THEN <<S("shared")>>
    ELSE IF target_os \in {S("ios"), S("mingw")} THEN <<S("static")>>
    ELSE <<S("shared"), S("static")>>

\* lines 56-73, as list(build_targets(target, target_os))
build_targets(target, target_os) ==
    library_flavor(target, target_os)
    \o <<S("cli"), S("tests")>>
    \o (IF target \in {S("coverage")} THEN <<S("bogo_shim")>> ELSE <<>>)

\* ---------------------------------------------------------- determine_flags
valid_os == {S("linux"), S("osx"), S("windows"), S("freebsd")}

slow_tests ==
    << S("cryptobox"), S("dh_invalid"), S("dh_kat"), S("dh_keygen"),
       S("dl_group_gen"), S("dlies"), S("dsa_param"), S("ecc_basemul"),
       S("ecdsa_verify_wycheproof"), S("mce_keygen"), S("passhash9"),
       S("rsa_encrypt"), S("rsa_pss"), S("rsa_pss_raw"), S("scrypt"),
       S("srp6_kat"), S("x509_path_bsi"), S("xmss_keygen"), S("xmss_sign"),
       S("pbkdf"), S("argon2"), S("bcrypt"), S("bcrypt_pbkdf"), S("compression"),
       S("ed25519_sign"), S("elgamal_keygen"), S("x509_path_rsa_pss") >>

valgrind_prefix ==
    << S("valgrind"), S("--error-exitcode=9"), S("-v"), S("--leak-check=full"),
       S("--show-reachable=yes") >>

\* lines 97-104 alone: the remapping without the cross-target rules
remap_os_no_cross(target, target_os, target_cc) ==
    IF target = S("emscripten") THEN S("emscripten")
    ELSE IF target = S("baremetal") THEN S("none")
    ELSE IF target_os = S("windows") /\ target_cc = S("gcc") THEN S("mingw")
    ELSE target_os

\* lines 89-104: the OS the build is configured for
remap_os(target, target_os, target_cc) ==
    LET os1 == IF is_cross_target(target)
               THEN IF target_os = S("osx") THEN S("ios")
                    ELSE IF target = cross_win64 THEN S("mingw")
                    ELSE IF target \in {cross_android_arm32, cross_android_arm64}
                         THEN S("android")
                    ELSE target_os
               ELSE target_os
        os2 == IF os1 = S("windows") /\ target_cc = S("gcc") THEN S("mingw") ELSE os1
        os3 == IF target = S("baremetal") THEN S("none") ELSE os2
    IN IF target = S("emscripten") THEN S("emscripten") ELSE os3

\* '--flag=%s' % (value)
fmt(literal, value) == <<literal>> \o value

\* the same without line 141, docs keeping its test command
base_test_cmd_docs_tested(target, root_dir) ==
    IF target \in {S("baremetal"), S("emscripten")} THEN None
    ELSE IF target = S("valgrind")
    THEN <<path_join(root_dir, S("botan-test")), S("--test-threads=1")>>
    ELSE <<path_join(root_dir, S("botan-test"))>>

\* lines 108, 141, 154, 187, 192: the test command before the cross/native split
base_test_cmd(target, root_dir) ==
    LET t0 == <<path_join(root_dir, S("botan-test"))>>
        t1 == IF target = S("docs") THEN None ELSE t0
        t2 == IF target = S("valgrind") THEN Append(t1, S("--test-threads=1")) ELSE t1
    IN IF target \in {S("baremetal"), S("emscripten")} THEN None ELSE t2

\* the slow tests put in front of the caller's names
valgrind_skips_first(disabled_tests) == slow_tests \o disabled_tests

\* line 165: disabled_tests += slow_tests
valgrind_skips(disabled_tests) == disabled_tests \o slow_tests

\* lines 106-192: everything decided before the cross/native split
pre_cross(target, target_os, target_cpu, target_cc, cc_bin, ccache, root_dir, disable_werror, extra_cxxflags, disabled_tests, install_prefix) ==
    LET os == remap_os(target, target_os, target_cc)
        base == << fmt("--prefix=", install_prefix),
                   fmt("--cc=", target_cc),
                   fmt("--os=", os),
                   fmt("--build-targets=", Join(build_targets(target, os), ",")) >>
        sanitizers == IF target_cc \in {S("clang"), S("gcc")}
                      THEN <<S("--enable-sanitizers=address,undefined")>>
                      ELSE <<S("--with-sanitizers")>>
        flags == Concat(<<
            base,
            IF ccache # NoneStr
              THEN <<S("--no-store-vc-rev"), fmt("--compiler-cache=", ccache)>> ELSE <<>>,
            IF ~disable_werror THEN <<S("--werror-mode")>> ELSE <<>>,
            IF target_cpu # NoneStr THEN <<fmt("--cpu=", target_cpu)>> ELSE <<>>,
            [i \in 1..Len(extra_cxxflags) |-> fmt("--extra-cxxflags=", extra_cxxflags[i])],
            IF target \in {S("minimized")}
              THEN <<S("--minimized-build"),
                     S("--enable-modules=system_rng,sha2_32,sha2_64,aes")>> ELSE <<>>,
            IF target \in {S("amalgamation")} THEN <<S("--amalgamation")>> ELSE <<>>,
            IF target \in {S("bsi"), S("nist")}
              THEN <<fmt("--module-policy=", target), S("--enable-modules=tls12")>> ELSE <<>>,
            IF target = S("docs")
              THEN <<S("--with-doxygen"), S("--with-sphinx"), S("--with-rst2man")>> ELSE <<>>,
            IF target = S("coverage")
              THEN <<S("--with-coverage-info"), S("--with-debug-info"), S("--test-mode")>>
              ELSE <<>>,
            IF target = S("valgrind") THEN <<S("--with-valgrind")>> ELSE <<>>,
            IF target = S("fuzzers") THEN <<S("--unsafe-fuzzer-mode")>> ELSE <<>>,
            IF target \in {S("fuzzers"), S("coverage")}
              THEN <<S("--build-fuzzers=test")>> ELSE <<>>,
            IF target \in {S("fuzzers"), S("sanitizer")}
              THEN <<S("--with-debug-asserts")>> \o sanitizers ELSE <<>>,
            IF target \in {S("valgrind"), S("sanitizer"), S("fuzzers")}
              THEN <<S("--disable-modules=locking_allocator")>> ELSE <<>>,
            IF target = S("baremetal")
              THEN <<S("--cpu=arm32"), S("--disable-neon"), S("--without-stack-protector"),
                     S("--ldflags=-specs=nosys.specs")>> ELSE <<>>,
            IF target = S("emscripten") THEN <<S("--cpu=wasm")>> ELSE <<>> >>)
        \* line 145: disabled_tests.append(...), line 165: disabled_tests += slow_tests
        d1 == IF target = cross_win64
              THEN Append(disabled_tests, S("certstor_system")) ELSE disabled_tests
        d2 == IF target = S("valgrind") THEN valgrind_skips(d1) ELSE d1
    IN [ target_os |-> os,
         flags |-> flags,
         disabled_tests |-> d2,
         test_cmd |-> base_test_cmd(target, root_dir),
         test_prefix |-> IF target = S("valgrind") THEN valgrind_prefix ELSE <<>>,
         cc_bin |-> IF target = S("baremetal") THEN S("arm-none-eabi-c++") ELSE cc_bin ]

\* lines 194-264: cross-compilation sub-resolution.  env is os.environ.
no_exception == [type |-> "", msg |-> <<>>]

cross_stage(target, root_dir, env, acc) ==
    LET keep == [ exc |-> no_exception, flags |-> acc.flags, cc_bin |-> acc.cc_bin,
                  test_cmd |-> acc.test_cmd, test_prefix |-> acc.test_prefix,
                  make_prefix |-> <<>>, disabled_tests |-> acc.disabled_tests ]
        raise(type, msg) == [keep EXCEPT !.exc = [type |-> type, msg |-> msg]]
    IN
    IF acc.target_os = S("ios") THEN
        IF target = cross_ios_arm64
        THEN [keep EXCEPT !.make_prefix = <<S("xcrun"), S("--sdk"), S("iphoneos")>>,
                          !.test_cmd = None,
                          !.flags = @ \o <<S("--cpu=arm64"),
                                           S("--cc-abi-flags=-arch arm64 -stdlib=libc++")>>]
        ELSE raise("Exception", <<"Unknown cross target '">> \o target \o <<"' for iOS">>)
    ELSE IF acc.target_os = S("android") THEN
        IF env.ANDROID_NDK = NoneStr
        THEN raise("Exception",
                   S("Android CI build requires ANDROID_NDK env variable be set"))
        ELSE
        LET api_lvl == IF env.ANDROID_API_LEVEL = 0
                       THEN (IF target = cross_android_arm32 THEN 16 ELSE 28)
                       ELSE env.ANDROID_API_LEVEL
            toolchain_dir == path_join(env.ANDROID_NDK,
                                       S("toolchains/llvm/prebuilt/linux-x86_64/bin"))
            arch == IF target = cross_android_arm32
                    THEN [ cc_bin |-> path_join(toolchain_dir,
                              <<"armv7a-linux-androideabi", ToString(api_lvl), "-clang++">>),
                           flags |-> <<S("--cpu=armv7"),
                                       fmt("--ar-command=",
                                           path_join(toolchain_dir,
                                                     S("arm-linux-androideabi-ar")))>> ]
                    ELSE IF target = cross_android_arm64
                    THEN [ cc_bin |-> path_join(toolchain_dir,
                              <<"aarch64-linux-android", ToString(api_lvl), "-clang++">>),
                           flags |-> <<S("--cpu=arm64"),
                                       fmt("--ar-command=",
                                           path_join(toolchain_dir,
                                                     S("aarch64-linux-android-ar")))>> ]
                    ELSE [ cc_bin |-> acc.cc_bin, flags |-> <<>> ]
        IN [keep EXCEPT !.test_cmd = None,
                        !.cc_bin = arch.cc_bin,
                        !.flags = @ \o arch.flags
                            \o (IF api_lvl < 18
                                THEN <<S("--without-os-features=getauxval")>> ELSE <<>>)
                            \o (IF api_lvl >= 28
                                THEN <<S("--with-os-features=getentropy")>> ELSE <<>>)]
    ELSE IF target = cross_i386 THEN
        [keep EXCEPT !.flags = @ \o <<S("--cpu=x86_32")>>]
    ELSE IF target = cross_win64 THEN
        [keep EXCEPT !.cc_bin = S("x86_64-w64-mingw32-g++"),
                     !.flags = @ \o <<S("--cpu=x86_64"), S("--cc-abi-flags=-static"),
                                      S("--ar-command=x86_64-w64-mingw32-ar"),
                                      S("--without-os-feature=threads")>>,
                     !.test_cmd = <<path_join(root_dir, S("botan-test.exe"))>> \o Tail(@),
                     !.test_prefix = <<S("wine")>>]
    ELSE IF target = cross_arm32 THEN
        [keep EXCEPT !.flags = @ \o <<S("--cpu=armv7")>>,
                     !.cc_bin = S("arm-linux-gnueabihf-g++")]
    ELSE IF target = cross_arm64 THEN
        [keep EXCEPT !.flags = @ \o <<S("--cpu=aarch64")>>,
                     !.cc_bin = S("aarch64-linux-gnu-g++"),
                     !.test_prefix = <<S("qemu-aarch64"), S("-L"), S("/usr/aarch64-linux-gnu/")>>]
    ELSE IF target = cross_ppc32 THEN
        [keep EXCEPT !.flags = @ \o <<S("--cpu=ppc32")>>,
                     !.cc_bin = S("powerpc-linux-gnu-g++"),
                     !.test_prefix = <<S("qemu-ppc"), S("-L"), S("/usr/powerpc-linux-gnu/")>>]
    ELSE IF target = cross_ppc64 THEN
        [keep EXCEPT !.flags = @ \o <<S("--cpu=ppc64"), S("--with-endian=little")>>,
                     !.cc_bin = S("powerpc64le-linux-gnu-g++"),
                     !.test_prefix = <<S("qemu-ppc64le"), S("-cpu"), S("POWER8"), S("-L"),
                                       S("/usr/powerpc64le-linux-gnu/")>>]
    ELSE IF target = cross_mips64 THEN
        \* line 262: test_cmd.remove('simd_32')
        LET removed == list_remove(acc.test_cmd, S("simd_32"))
            upd == [keep EXCEPT !.flags = @ \o <<S("--cpu=mips64"), S("--with-endian=big")>>,
                                !.cc_bin = S("mips64-linux-gnuabi64-g++"),
                                !.test_prefix = <<S("qemu-mips64"), S("-L"),
                                                  S("/usr/mips64-linux-gnuabi64/")>>]
        IN IF removed.raised
           THEN [upd EXCEPT !.exc = [type |-> "ValueError",
                                     msg |-> S("list.remove(x): x not in list")]]
           ELSE [upd EXCEPT !.test_cmd = removed.list]
    ELSE raise("Exception", <<"Unknown cross target '">> \o target \o <<"' for Linux">>)

\* lines 265-294: flags specific to native targets
native_stage(target, pkcs11_lib, env, acc) ==
    LET boost == IF acc.target_os = S("windows") /\ target \in {S("shared"), S("static")}
                 THEN IF env.BOOST_ROOT # NoneStr
                      THEN <<S("--with-external-includedir"), env.BOOST_ROOT>>
                      ELSE IF env.BOOST_INCLUDEDIR # NoneStr
                      THEN <<S("--with-external-includedir"), env.BOOST_INCLUDEDIR>>
                      ELSE <<>>
                 ELSE <<>>
        cov == target \in {S("coverage")}
    IN [ exc |-> no_exception,
         flags |-> Concat(<<
             acc.flags,
             IF acc.target_os \in {S("osx"), S("linux")}
               THEN <<S("--with-bzip2"), S("--with-sqlite"), S("--with-zlib")>> ELSE <<>>,
             IF acc.target_os \in {S("osx"), S("ios")}
               THEN <<S("--with-commoncrypto")>> ELSE <<>>,
             IF target = S("coverage") THEN <<S("--with-boost")>> ELSE <<>>,
             boost,
             IF acc.target_os = S("linux") THEN <<S("--with-lzma")>> ELSE <<>>,
             IF cov THEN <<S("--with-tpm")>> ELSE <<>> >>),
         cc_bin |-> acc.cc_bin,
         test_cmd |-> IF cov
                      THEN acc.test_cmd \o <<S("--run-online-tests")>>
                           \o (IF pkcs11_lib # NoneStr /\ pkcs11_lib \in env.readable
                               THEN <<fmt("--pkcs11-lib=", pkcs11_lib)>> ELSE <<>>)
                      ELSE acc.test_cmd,
         test_prefix |-> acc.test_prefix,
         make_prefix |-> <<>>,
         disabled_tests |-> acc.disabled_tests ]

\* the gdb invocation without test_prefix in front
gdb_wrap_drops_prefix(test_prefix, test_cmd) ==
    << S("gdb"), Head(test_cmd),
       S("-ex"), fmt("run ", Join(Tail(test_cmd), " ")),
       S("-ex"), S("bt"),
       S("-ex"), S("quit") >>

\* lines 312-316: the test command run under gdb
gdb_wrap(test_prefix, test_cmd) ==
    test_prefix \o << S("gdb"), Head(test_cmd),
                      S("-ex"), fmt("run ", Join(Tail(test_cmd), " ")),
                      S("-ex"), S("bt"),
                      S("-ex"), S("quit") >>

\* lines 311-318: the test command, skip list included, behind its prefix
rendered_command(test_prefix, test_cmd, use_gdb) ==
    IF use_gdb THEN gdb_wrap(test_prefix, test_cmd) ELSE test_prefix \o test_cmd

\* lines 308-309
with_skip_tests(test_cmd, d) ==
    IF d # <<>> THEN Append(test_cmd, fmt("--skip-tests=", Join(d, ","))) ELSE test_cmd

\* lines 304-305
with_os_utils(use_gdb, disabled_tests) ==
    IF use_gdb THEN Append(disabled_tests, S("os_utils")) ELSE disabled_tests

\* lines 301-318: render the skip list and wrap the test command
rendered_with(test_prefix, test_cmd, use_gdb, d) ==
    [ run_test_command |-> rendered_command(test_prefix, with_skip_tests(test_cmd, d),
                                            use_gdb),
      disabled_tests |-> d ]

render_test_command(test_prefix, test_cmd, use_gdb, disabled_tests) ==
    IF test_cmd = None
    THEN [ run_test_command |-> None, disabled_tests |-> disabled_tests ]
    ELSE rendered_with(test_prefix, test_cmd, use_gdb,
                       with_os_utils(use_gdb, disabled_tests))

\* the native branch taken whatever the target
cross_or_native_always_native(target, root_dir, pkcs11_lib, env, pre) ==
    native_stage(target, pkcs11_lib, env, pre)

\* lines 194, 265: the cross or the native branch
cross_or_native(target, root_dir, pkcs11_lib, env, pre) ==
    IF is_cross_target(target)
    THEN cross_stage(target, root_dir, env, pre)
    ELSE native_stage(target, pkcs11_lib, env, pre)

\* lines 296-297
final_test_cmd(target, test_cmd) ==
    IF target \in {S("coverage"), S("sanitizer")}
    THEN Append(test_cmd, S("--run-long-tests"))
    ELSE test_cmd

\* The outcome of a call of determine_flags: besides the returned triple,
\* what the call did to the caller's disabled_tests list, whether it reached
\* tempfile.mkdtemp, what it printed and the exception it raised, if any.
outcome(exc, printed, flags, run_test_command, make_prefix, tests, made_tmpdir) ==
    [ exc |-> exc, printed |-> printed, flags |-> flags,
      run_test_command |-> run_test_command, make_prefix |-> make_prefix,
      disabled_tests |-> tests, made_tmpdir |-> made_tmpdir ]

\* the compiler-binary flag put in front of the other flags
returned_plan_cc_bin_first(res, rendered) ==
    outcome(no_exception, <<>>, <<fmt("--cc-bin=", res.cc_bin)>> \o res.flags,
            rendered.run_test_command, res.make_prefix, rendered.disabled_tests, TRUE)

\* lines 299-320, given the rendered test command
returned_plan(res, rendered) ==
    outcome(no_exception, <<>>, Append(res.flags, fmt("--cc-bin=", res.cc_bin)),
            rendered.run_test_command, res.make_prefix, rendered.disabled_tests, TRUE)

\* lines 296-320, or the exception raised at lines 201, 206, 262, 264
finish(target, use_gdb, res) ==
    IF res.exc # no_exception
    THEN outcome(res.exc, <<>>, None, None, None, res.disabled_tests, TRUE)
    ELSE returned_plan(res, render_test_command(res.test_prefix,
                                                final_test_cmd(target, res.test_cmd),
                                                use_gdb, res.disabled_tests))

\* lines 75-320
determine_flags(target, target_os, target_cpu, target_cc, cc_bin, ccache, root_dir, pkcs11_lib, use_gdb, disable_werror, extra_cxxflags, disabled_tests, env, install_prefix) ==
    IF target_os \notin valid_os
    THEN outcome(no_exception, << <<"Error unknown OS ">> \o target_os >>,
                 None, None, None, disabled_tests, FALSE)
    ELSE finish(target, use_gdb,
                cross_or_native(target, root_dir, pkcs11_lib, env,
                    pre_cross(target, target_os, target_cpu, target_cc, cc_bin, ccache,
                              root_dir, disable_werror, extra_cxxflags, disabled_tests,
                              install_prefix)))

\* ---------------------------------------------------------------------- main
root_dir == S(".")

\* os.path.abspath(p), relative to the working directory
abspath(p) == <<"/cwd", "/">> \o p

\* have_prog(prog): prog is an executable somewhere on PATH
have_prog(prog, env) == prog \in env.programs

\* get_concurrency()
get_concurrency(env) == IF env.cpu_count < 16 THEN env.cpu_count ELSE 16

\* lines 471-482: the compiler binary main derives from the compiler family
default_cc_bin(cc) ==
    IF cc = S("gcc") THEN S("g++")
    ELSE IF cc = S("clang") THEN S("clang++")
    ELSE IF cc = S("msvc") THEN S("cl")
    ELSE IF cc = S("emcc") THEN S("em++")
    ELSE NoneStr

\* lines 484-491: autodetected compiler cache
detect_compiler_cache(options, env) ==
    IF options.compiler_cache # NoneStr THEN options.compiler_cache
    ELSE IF have_prog(S("sccache"), env) THEN S("sccache")
    ELSE IF have_prog(S("ccache"), env) THEN S("ccache")
    ELSE NoneStr

\* lines 462-469
py_interp(options, env) ==
    IF have_prog(S("python3"), env) THEN S("python3") ELSE S("python")

py_scripts ==
    << S("configure.py"), S("src/python/botan2.py"), S("src/scripts/ci_build.py"),
       S("src/scripts/install.py"), S("src/scripts/ci_check_install.py"),
       S("src/scripts/dist.py"), S("src/scripts/cleanup.py"), S("src/scripts/check.py"),
       S("src/scripts/build_docs.py"), S("src/scripts/website.py"),
       S("src/scripts/bench.py"), S("src/scripts/test_python.py"),
       S("src/scripts/test_fuzzers.py"), S("src/scripts/test_cli.py"),
       S("src/scripts/python_unittests.py"), S("src/scripts/python_unittests_unix.py"),
       S("src/editors/sublime/build.py") >>

\* lines 503-534: the command list of the lint target
lint_cmds(options, env) ==
    IF have_prog(S("python3"), env) /\ options.use_pylint3
    THEN << << S("python3"), S("-m"), S("pylint"),
               fmt("--rcfile=", path_join(root_dir, S("src/configs/pylint.rc"))),
               S("--reports=no"), S("--disable=useless-object-inheritance") >>
            \o [i \in 1..Len(py_scripts) |-> path_join(root_dir, py_scripts[i])] >>
    ELSE <<>>

\* lines 548-554
make_cmd(options) ==
    <<options.make_tool>>
    \o (IF root_dir # S(".") THEN <<S("-C"), root_dir>> ELSE <<>>)
    \o (IF options.build_jobs > 1 /\ options.make_tool # S("nmake")
        THEN <<<<"-j", ToString(options.build_jobs)>>>> ELSE <<>>)
    \o <<S("-k")>>

\* lines 543-650: the command list of a build target, given the plan.
\* ret is the value main returns early with, -1 when it goes on to run cmds.
build_cmds(target, options, env, config_flags, run_test_command, make_prefix) ==
    LET py == py_interp(options, env)
        cache == options.compiler_cache
        show_stats == IF cache # NoneStr THEN << <<cache, S("--show-stats")>> >> ELSE <<>>
        make_targets == <<S("libs"), S("tests"), S("cli")>>
            \o (IF target \in {S("coverage"), S("fuzzers")}
                THEN <<S("fuzzer_corpus_zip"), S("fuzzers")>> ELSE <<>>)
            \o (IF target \in {S("coverage")} THEN <<S("bogo_shim")>> ELSE <<>>)
        python_tests == path_join(root_dir, S("src/scripts/test_python.py"))
        botan_exe == path_join(root_dir, S("botan"))
        cli_args == << <<"--threads=", ToString(options.build_jobs)>> >>
            \o (IF target = S("coverage") THEN <<S("--run-slow-tests")>> ELSE <<>>)
        cli_test(script) == <<py, path_join(root_dir, path_join(S("src/scripts"), script))>>
                            \o cli_args \o <<botan_exe>>
        cov_missing == target \in {S("coverage")}
                       /\ (~have_prog(S("lcov"), env) \/ ~have_prog(S("gcov"), env))
        cmds == Concat(<<
            << <<py, path_join(root_dir, S("configure.py"))>> \o config_flags >>,
            IF target = S("docs")
              THEN << make_cmd(options) \o <<S("docs")>> >>
              ELSE show_stats
                   \o << make_prefix \o make_cmd(options) \o make_targets >>
                   \o show_stats,
            IF run_test_command # None THEN <<run_test_command>> ELSE <<>>,
            IF target = S("coverage")
              THEN << << fmt("indir:", abspath(path_join(root_dir,
                                                        S("boringssl/ssl/test/runner")))),
                         S("go"), S("test"), S("-pipe"), S("-num-workers"),
                         S(ToString(4 * get_concurrency(env))),
                         S("-shim-path"), abspath(path_join(root_dir, S("botan_bogo_shim"))),
                         S("-shim-config"),
                         abspath(path_join(root_dir, S("src/bogo_shim/config.json"))) >> >>
              ELSE <<>>,
            IF target \in {S("coverage"), S("fuzzers")}
              THEN << << py, path_join(root_dir, S("src/scripts/test_fuzzers.py")),
                         path_join(root_dir, S("fuzzer_corpus")),
                         path_join(root_dir, S("build/fuzzer")) >> >>
              ELSE <<>>,
            IF target \in {S("shared"), S("coverage")} /\ options.os # S("windows")
              THEN <<cli_test(S("test_cli.py")), cli_test(S("test_cli_crypt.py"))>>
              ELSE <<>>,
            IF target \in {S("shared"), S("coverage")}
              THEN IF options.os = S("windows")
                   THEN IF options.cpu = S("x86")
                        THEN << <<py, S("-b"), python_tests>> >> ELSE <<>>
                   ELSE IF have_prog(S("python3"), env)
                        THEN << <<S("python3"), S("-b"), python_tests>> >> ELSE <<>>
              ELSE <<>>,
            IF target \in {S("shared"), S("static"), S("bsi"), S("nist")}
              THEN << make_cmd(options) \o <<S("install")>>,
                      << py, path_join(root_dir, S("src/scripts/ci_check_install.py")),
                         path_join(root_dir, S("build/build_config.json")) >> >>
              ELSE <<>>,
            IF target \in {S("coverage")} /\ ~cov_missing
              THEN << << S("lcov"), S("--capture"), S("--directory"), root_dir,
                         S("--output-file"), S("coverage.info.raw") >>,
                      << S("lcov"), S("--remove"), S("coverage.info.raw"), S("/usr/*"),
                         S("--output-file"), S("coverage.info") >>,
                      << S("lcov"), S("--list"), S("coverage.info") >> >>
                   \o (IF have_prog(S("coverage"), env)
                       THEN << << S("coverage"), S("run"), S("--branch"), S("--rcfile"),
                                  path_join(root_dir, S("src/configs/coverage.rc")),
                                  python_tests >> >>
                       ELSE <<>>)
                   \o (IF have_prog(S("codecov"), env)
                       THEN << <<S("codecov"), S(">"), S("codecov_stdout.log")>> >>
                       ELSE << <<S("genhtml"), S("coverage.info"),
                                 S("--output-directory"), S("lcov-out")>> >>)
              ELSE <<>>,
            << make_cmd(options) \o <<S("clean")>>,
               make_cmd(options) \o <<S("distclean")>> >> >>)
    IN IF cov_missing
       THEN [ ret |-> 1, cmds |-> <<>>,
              printed |-> << <<"Error: ",
                               IF ~have_prog(S("lcov"), env) THEN "lcov" ELSE "gcov",
                               " not found in PATH">> >> ]
       ELSE [ ret |-> -1, cmds |-> cmds, printed |-> <<>> ]

\* -------------------------------------------------------------------- state
VARIABLES
    target,          \* the CI target named on the command line
    options,         \* parsed options (optparse values)
    extra_cxxflags,  \* options.extra_cxxflags, a list object shared with callees
    disabled_tests,  \* options.disabled_tests, a list object shared with callees
    env,             \* os.environ and what is installed on the host
    passed,          \* the lists as they were when determine_flags was last entered
    ncalls,          \* calls of determine_flags so far
    result,          \* outcome of the last call of determine_flags
    prev_result,     \* outcome of the call before that
    tmpdirs,         \* scratch directories created by tempfile.mkdtemp
    pc,              \* where the process is
    cmds,            \* main's command list
    spawned,         \* commands handed to subprocess.Popen by run_cmd, in order
    stdout,          \* lines printed
    uncaught,        \* the exception that ended main, if any
    exit_status,     \* exit status of the process, -1 while it runs
    cmd_index,       \* position of main's loop over cmds
    artifacts        \* last direct call of build_targets: arguments and result

vars == << target, options, extra_cxxflags, disabled_tests, env, passed, ncalls,
           result, prev_result, tmpdirs, pc, cmds, spawned, stdout, uncaught,
           exit_status, cmd_index, artifacts >>

\* ------------------------------------------------------------------- inputs
TestNames == {S("simd_32"), S("tls")}

RECURSIVE SeqsUpTo(_, _)
SeqsUpTo(set, n) ==
    IF n = 0 THEN {<<>>}
    ELSE LET shorter == SeqsUpTo(set, n - 1)
         IN shorter \cup {Append(q, x) : q \in {r \in shorter : Len(r) = n - 1}, x \in set}

DisabledLists == SeqsUpTo(TestNames, MaxDisabled)

\* an OS name the script does not know, besides the four it does
HostOS == valid_os \cup {S("solaris")}
Compilers == {S("gcc"), S("clang"), S("msvc"), S("emcc")}
\* a name outside known_targets(), as a mistyped command line gives
Targets == known_targets \cup {S("bogus")}

pkcs11_path == S("/usr/lib/softhsm/libsofthsm2.so")

\* three hosts: a bare one, a CI worker with the usual tools, a developer
\* machine doing a dry run with explicit options
Hosts ==
    { [ cpu |-> NoneStr, compiler_cache |-> NoneStr, pkcs11_lib |-> NoneStr,
        disable_werror |-> FALSE, dry_run |-> FALSE, make_tool |-> S("make"),
        extra_cxxflags |-> <<>>,
        env |-> [ ANDROID_NDK |-> NoneStr, ANDROID_API_LEVEL |-> 0,
                  BOOST_ROOT |-> NoneStr, BOOST_INCLUDEDIR |-> NoneStr,
                  programs |-> {}, readable |-> {root_dir}, cpu_count |-> 1 ] ],
      [ cpu |-> NoneStr, compiler_cache |-> NoneStr, pkcs11_lib |-> pkcs11_path,
        disable_werror |-> FALSE, dry_run |-> FALSE, make_tool |-> S("make"),
        extra_cxxflags |-> <<S("-O2")>>,
        env |-> [ ANDROID_NDK |-> S("/opt/android-ndk"), ANDROID_API_LEVEL |-> 0,
                  BOOST_ROOT |-> S("C:/boost"), BOOST_INCLUDEDIR |-> NoneStr,
                  programs |-> {S("python3"), S("ccache"), S("lcov"), S("gcov"),
                                S("codecov")},
                  readable |-> {root_dir, pkcs11_path}, cpu_count |-> 4 ] ],
      [ cpu |-> S("x86"), compiler_cache |-> S("sccache"), pkcs11_lib |-> pkcs11_path,
        disable_werror |-> TRUE, dry_run |-> TRUE, make_tool |-> S("nmake"),
        extra_cxxflags |-> <<S("-O2"), S("-g")>>,
        env |-> [ ANDROID_NDK |-> S("/opt/android-ndk"), ANDROID_API_LEVEL |-> 21,
                  BOOST_ROOT |-> NoneStr, BOOST_INCLUDEDIR |-> S("C:/boost/include"),
                  programs |-> {S("python3"), S("lcov"), S("gcov"), S("coverage")},
                  readable |-> {root_dir}, cpu_count |-> 32 ] ] }

no_result == outcome(no_exception, <<>>, None, None, None, <<>>, FALSE)

no_artifacts == [ target |-> NoneStr, target_os |-> NoneStr, out |-> <<>> ]

Init ==
    /\ target \in Targets
    /\ \E h \in Hosts, o \in HostOS, c \in Compilers, g \in BOOLEAN :
          /\ options = [ os |-> o, cpu |-> h.cpu, cc |-> c, cc_bin |-> NoneStr,
                         compiler_cache |-> h.compiler_cache,
                         pkcs11_lib |-> h.pkcs11_lib, use_gdb |-> g,
                         disable_werror |-> h.disable_werror, dry_run |-> h.dry_run,
                         make_tool |-> h.make_tool, build_jobs |-> get_concurrency(h.env),
                         use_pylint3 |-> TRUE ]
          /\ extra_cxxflags = h.extra_cxxflags
          /\ env = h.env
    /\ disabled_tests \in DisabledLists
    /\ passed = [ disabled_tests |-> <<>>, extra_cxxflags |-> <<>> ]
    /\ ncalls = 0
    /\ result = no_result
    /\ prev_result = no_result
    /\ tmpdirs = 0
    /\ pc = "start"
    /\ cmds = <<>>
    /\ spawned = <<>>
    /\ stdout = <<>>
    /\ uncaught = no_exception
    /\ exit_status = -1
    /\ cmd_index = 1
    /\ artifacts = no_artifacts

\* tempfile.mkdtemp(prefix='botan-install-'): a directory no earlier call made
mkdtemp(n) == <<"/tmp/botan-install-", ToString(n + 1)>>

\* the call main makes at lines 537-541, with the lists as they are now
call_determine_flags(cc_bin, ccache) ==
    determine_flags(target, options.os, options.cpu, options.cc, cc_bin, ccache,
                    root_dir, options.pkcs11_lib, options.use_gdb,
                    options.disable_werror, extra_cxxflags, disabled_tests,
                    env, mkdtemp(tmpdirs))

\* what any call of determine_flags leaves behind
Called(r) ==
    /\ passed' = [ disabled_tests |-> disabled_tests, extra_cxxflags |-> extra_cxxflags ]
    /\ ncalls' = ncalls + 1
    /\ prev_result' = result
    /\ result' = r
    /\ disabled_tests' = r.disabled_tests
    /\ tmpdirs' = IF r.made_tmpdir THEN tmpdirs + 1 ELSE tmpdirs
    /\ UNCHANGED extra_cxxflags

\* ------------------------------------------------------------------ actions
\* A caller other than main (a test, another script) calls determine_flags
\* with the same arguments and the same list objects, possibly repeatedly.
DirectCall ==
    /\ pc \in {"start", "direct"}
    /\ ncalls < MaxCalls
    /\ \E r \in {call_determine_flags(default_cc_bin(options.cc), options.compiler_cache)} :
          /\ Called(r)
          /\ stdout' = stdout \o r.printed
    /\ pc' = "direct"
    /\ UNCHANGED << target, options, env, cmds, spawned, uncaught, exit_status,
                    cmd_index, artifacts >>

\* main, lines 442-499: validate the target and fill in option defaults
MainParse ==
    /\ pc = "start"
    /\ IF target \notin known_targets
       THEN /\ stdout' = Append(stdout, <<"Unknown target '">> \o target \o <<"'">>)
            /\ exit_status' = 2
            /\ pc' = "exited"
            /\ UNCHANGED << options, uncaught >>
       ELSE IF root_dir \notin env.readable
       THEN /\ uncaught' = [type |-> "Exception",
                            msg |-> <<"Bad root dir setting, dir ">> \o root_dir
                                    \o <<" not readable">>]
            /\ exit_status' = 1
            /\ pc' = "exited"
            /\ UNCHANGED << options, stdout >>
       ELSE /\ options' = [options EXCEPT
                              !.cc_bin = default_cc_bin(options.cc),
                              !.compiler_cache = detect_compiler_cache(options, env)]
            /\ stdout' = IF options.compiler_cache = NoneStr
                            /\ detect_compiler_cache(options, env) # NoneStr
                         THEN Append(stdout, <<"Found '">>
                                             \o detect_compiler_cache(options, env)
                                             \o <<"' installed, will use it...">>)
                         ELSE stdout
            /\ pc' = "parsed"
            /\ UNCHANGED << uncaught, exit_status >>
    /\ UNCHANGED << target, extra_cxxflags, disabled_tests, env, passed, ncalls, result,
                    prev_result, tmpdirs, cmds, spawned, cmd_index, artifacts >>

\* the same without noticing that determine_flags returned no flags
MainCommands_unchecked_plan(r, b) ==
    IF b.ret # -1
    THEN /\ exit_status' = b.ret
         /\ pc' = "exited"
         /\ stdout' = stdout \o r.printed \o b.printed
         /\ UNCHANGED << cmds, uncaught >>
    ELSE /\ cmds' = b.cmds
         /\ pc' = "run"
         /\ stdout' = stdout \o r.printed
         /\ UNCHANGED << uncaught, exit_status >>

\* main, lines 543-650, once determine_flags has returned r
MainCommands(r, b) ==
    IF r.flags = None
    THEN \* line 543: [...] + config_flags with config_flags = None
         /\ uncaught' = [type |-> "TypeError",
                         msg |-> S("can only concatenate list (not \"NoneType\") to list")]
         /\ exit_status' = 1
         /\ pc' = "exited"
         /\ stdout' = stdout \o r.printed
         /\ UNCHANGED cmds
    ELSE IF b.ret # -1
    THEN /\ exit_status' = b.ret
         /\ pc' = "exited"
         /\ stdout' = stdout \o b.printed
         /\ UNCHANGED << cmds, uncaught >>
    ELSE /\ cmds' = b.cmds
         /\ pc' = "run"
         /\ UNCHANGED << stdout, uncaught, exit_status >>

\* main, lines 501-650: resolve the plan and build the command list
MainBuild ==
    /\ pc = "parsed"
    /\ IF target = S("lint")
       THEN /\ cmds' = lint_cmds(options, env)
            /\ pc' = "run"
            /\ UNCHANGED << extra_cxxflags, disabled_tests, passed, ncalls, result,
                            prev_result, tmpdirs, stdout, uncaught, exit_status >>
       ELSE \E r \in {call_determine_flags(options.cc_bin, options.compiler_cache)} :
               /\ Called(r)
               /\ IF r.exc # no_exception
                  THEN \* the exception propagates out of main
                       /\ uncaught' = r.exc
                       /\ exit_status' = 1
                       /\ pc' = "exited"
                       /\ UNCHANGED << cmds, stdout >>
                  ELSE MainCommands(r, build_cmds(target, options, env, r.flags,
                                                  r.run_test_command, r.make_prefix))
    /\ UNCHANGED << target, options, env, spawned, cmd_index, artifacts >>

\* run_cmd, lines 338-344: the argv handed to subprocess.Popen
popen_argv(cmd) ==
    LET c1 == IF Len(cmd) >= 3 /\ cmd[Len(cmd) - 1] = S(">")
              THEN SubSeq(cmd, 1, Len(cmd) - 2) ELSE cmd
    IN IF Len(c1) > 1 /\ c1[1][1] = "indir:" THEN Tail(c1) ELSE c1

\* main, lines 652-656, one iteration; run_cmd, lines 322-362.
\* The spawned process ends with a status the script does not control.
MainRunCmd ==
    /\ pc = "run"
    /\ cmd_index <= Len(cmds)
    /\ LET cmd == cmds[cmd_index]
       IN IF options.dry_run
          THEN /\ stdout' = Append(stdout, <<"$ ">> \o Join(cmd, " "))
               /\ cmd_index' = cmd_index + 1
               /\ UNCHANGED << spawned, pc, exit_status >>
          ELSE /\ stdout' = Append(stdout, <<"Running '">> \o Join(cmd, " ") \o <<"' ...">>)
               /\ spawned' = Append(spawned, popen_argv(cmd))
               /\ \E returncode \in {0, 1} :
                     IF returncode # 0 /\ popen_argv(cmd)[1] \notin {S("lcov")}
                     THEN /\ exit_status' = returncode
                          /\ pc' = "exited"
                          /\ UNCHANGED cmd_index
                     ELSE /\ cmd_index' = cmd_index + 1
                          /\ UNCHANGED << pc, exit_status >>
    /\ UNCHANGED << target, options, extra_cxxflags, disabled_tests, env, passed, ncalls,
                    result, prev_result, tmpdirs, cmds, uncaught, artifacts >>

\* main, line 658
MainReturn ==
    /\ pc = "run"
    /\ cmd_index > Len(cmds)
    /\ exit_status' = 0
    /\ pc' = "exited"
    /\ UNCHANGED << target, options, extra_cxxflags, disabled_tests, env, passed, ncalls,
                    result, prev_result, tmpdirs, cmds, spawned, stdout, uncaught,
                    cmd_index, artifacts >>

Next == DirectCall \/ MainParse \/ MainBuild \/ MainRunCmd \/ MainReturn

Spec == Init /\ [][Next]_vars

\* ------------------------------------------------- build_targets on its own
\* every OS name build_targets can be handed: the host names and the remapped ones
ResolvedOS == valid_os \cup {S("ios"), S("mingw"), S("android"), S("none"), S("emscripten")}

InitArtifacts ==
    /\ Init
    /\ target = S("shared")
    /\ options.os = S("linux") /\ options.cc = S("gcc") /\ ~options.use_gdb
    /\ ~options.dry_run /\ options.cpu = NoneStr /\ extra_cxxflags = <<>>
    /\ disabled_tests = <<>>

\* a caller evaluates list(build_targets(t, o))
SelectArtifacts ==
    /\ \E t \in known_targets, o \in ResolvedOS :
          artifacts' = [ target |-> t, target_os |-> o, out |-> build_targets(t, o) ]
    /\ UNCHANGED << target, options, extra_cxxflags, disabled_tests, env, passed, ncalls,
                    result, prev_result, tmpdirs, pc, cmds, spawned, stdout, uncaught,
                    exit_status, cmd_index >>

SpecArtifacts == InitArtifacts /\ [][SelectArtifacts]_vars

\* =============================================================== properties
\* the last call of determine_flags returned a plan
Returned == ncalls > 0 /\ result.exc = no_exception /\ result.flags # None
\* the last call of determine_flags raised
Raised == ncalls > 0 /\ result.exc # no_exception

\* the errors the resolver raises on purpose (lines 201, 206, 264)
UnknownCrossTarget(exc) ==
    /\ exc.type = "Exception"
    /\ exc.msg[1] = "Unknown cross target '"
MissingAndroidNDK(exc) ==
    /\ exc.type = "Exception"
    /\ exc.msg = S("Android CI build requires ANDROID_NDK env variable be set")

\* the command as one line, the way run_cmd prints it
CommandLine(cmd) == Join(cmd, " ")

\* atoms of line from position i up to the next blank
RECURSIVE WordFrom(_, _)
WordFrom(line, i) ==
    IF i > Len(line) \/ line[i] = " " THEN <<>>
    ELSE <<line[i]>> \o WordFrom(line, i + 1)

\* the names of the '--skip-tests=' argument of a command, in order
SkipList(cmd) ==
    LET line == CommandLine(cmd)
        i == IndexOf(line, "--skip-tests=", 1)
    IN IF i = 0 THEN <<>>
       ELSE LET word == WordFrom(line, i + 1)
            IN [k \in 1..((Len(word) + 1) \div 2) |-> S(word[2 * k - 1])]

HasTestPlan == Returned /\ result.run_test_command # None

\* C1: for every known target but lint and every valid host OS, a call of
\* determine_flags returns a plan or raises an unknown-cross-target or
\* missing-ANDROID_NDK error, and nothing else.
C1_PlanOrTypedError ==
    (ncalls > 0 /\ target \in known_targets \ {S("lint")} /\ options.os \in valid_os)
    => \/ Returned
       \/ UnknownCrossTarget(result.exc)
       \/ MissingAndroidNDK(result.exc)

\* C2: two successive calls with the same arguments and the same
\* disabled-tests list give the same flags but for '--prefix=', the same
\* test command and the same make prefix.
C2_Idempotent ==
    (ncalls >= 2 /\ Returned /\ prev_result.flags # None)
    => /\ Tail(result.flags) = Tail(prev_result.flags)
       /\ result.run_test_command = prev_result.run_test_command
       /\ result.make_prefix = prev_result.make_prefix

\* C3: cross-mips64 on a host other than osx returns a test command whose
\* skip list does not name simd_32.
C3_Mips64SkipsNoSimd ==
    (ncalls > 0 /\ target = cross_mips64 /\ options.os \in valid_os \ {S("osx")})
    => /\ HasTestPlan
       /\ S("simd_32") \notin Range(SkipList(result.run_test_command))

\* the file name a path ends in
BaseName(path) == path[Len(path)]

\* C4: the valgrind target's test command starts with the valgrind
\* invocation, runs the tests on one thread, and its skip list is the
\* caller's disabled tests followed by the whole slow-test list.
C4_ValgrindPlan ==
    (Returned /\ target = S("valgrind"))
    => LET cmd == result.run_test_command
           skip == SkipList(cmd)
           given == passed.disabled_tests
       IN /\ cmd # None
          /\ Len(cmd) >= 5
          /\ SubSeq(cmd, 1, 5) = << <<"valgrind">>, <<"--error-exitcode=9">>, <<"-v">>,
                                    <<"--leak-check=full">>, <<"--show-reachable=yes">> >>
          /\ IndexOf(CommandLine(cmd), "--test-threads=1", 1) > 0
          /\ Range(given) \subseteq Range(skip)
          /\ Range(slow_tests) \subseteq Range(skip)
          /\ Len(skip) >= Len(given) + Len(slow_tests)
          /\ SubSeq(skip, 1, Len(given)) = given
          /\ SubSeq(skip, Len(given) + 1, Len(given) + Len(slow_tests)) = slow_tests

C4_Witness ==
    /\ Returned /\ target = S("valgrind")
    /\ passed.disabled_tests = <<S("tls")>>
    /\ S("cryptobox") \in Range(SkipList(result.run_test_command))

\* what C5 says of a cross-win64 plan
Win64Plan ==
    /\ HasTestPlan
    /\ LET cmd == result.run_test_command
           bin == IF options.use_gdb THEN cmd[3] ELSE cmd[2]
       IN /\ S("certstor_system") \in Range(SkipList(cmd))
          /\ cmd[1] = S("wine")
          /\ BaseName(bin) = "botan-test.exe"
    /\ result.flags[3] = <<"--os=", "mingw">>
    /\ result.flags[4] = <<"--build-targets=", "static", ",", "cli", ",", "tests">>

\* C5 as stated: on every valid host OS, cross-win64 gives a plan that skips
\* certstor_system, runs botan-test.exe under wine, is configured for mingw
\* and builds the static library only.
C5_Win64EveryHost ==
    (ncalls > 0 /\ target = cross_win64 /\ options.os \in valid_os) => Win64Plan

\* C5 amended: that holds on linux, windows and freebsd hosts; on an osx host
\* the call raises the unknown-cross-target error for iOS and returns no plan.
C5_Win64OffOsx ==
    (ncalls > 0 /\ target = cross_win64 /\ options.os \in valid_os)
    => IF options.os = S("osx")
       THEN Raised /\ UnknownCrossTarget(result.exc)
            /\ BaseName(result.exc.msg) = "' for iOS"
       ELSE Win64Plan

C5_Witness ==
    /\ Returned /\ target = cross_win64 /\ options.os = S("freebsd")
    /\ options.use_gdb /\ passed.disabled_tests # <<>>
    /\ result.run_test_command[1] = S("wine")

\* C6: with the debugger flag and a test plan, the command is the execution
\* prefix of the target, then gdb, the test binary, -ex 'run <arguments>',
\* -ex bt, -ex quit, and the arguments end in a skip list ending in os_utils.
C6_DebuggerWrap ==
    (HasTestPlan /\ options.use_gdb)
    => LET cmd == result.run_test_command
           k == IndexOf(cmd, S("gdb"), 1)
           prefix == SubSeq(cmd, 1, k - 1)
           run == cmd[k + 3]
           skip == SkipList(cmd)
       IN /\ k > 0
          /\ Len(cmd) = k + 7
          /\ IF target = S("valgrind") THEN Len(prefix) = 5 /\ prefix[1] = S("valgrind")
             ELSE IF target = cross_win64 THEN prefix = <<S("wine")>>
             ELSE IF target = cross_arm64
             THEN prefix = <<S("qemu-aarch64"), S("-L"), S("/usr/aarch64-linux-gnu/")>>
             ELSE IF target = cross_ppc32
             THEN prefix = <<S("qemu-ppc"), S("-L"), S("/usr/powerpc-linux-gnu/")>>
             ELSE IF target = cross_ppc64
             THEN prefix = <<S("qemu-ppc64le"), S("-cpu"), S("POWER8"), S("-L"),
                             S("/usr/powerpc64le-linux-gnu/")>>
             ELSE prefix = <<>>
          /\ BaseName(cmd[k + 1]) \in {"botan-test", "botan-test.exe"}
          /\ cmd[k + 2] = S("-ex")
          /\ run[1] = "run "
          /\ IndexOf(run, "--skip-tests=", 1) > 0
          /\ BaseName(run) = "os_utils"
          /\ SubSeq(cmd, k + 4, k + 7) = <<S("-ex"), S("bt"), S("-ex"), S("quit")>>
          /\ skip # <<>>
          /\ skip[Len(skip)] = S("os_utils")
          /\ Len(skip) > Len(passed.disabled_tests)
          /\ SubSeq(skip, 1, Len(passed.disabled_tests)) = passed.disabled_tests

C6_Witness ==
    /\ HasTestPlan /\ options.use_gdb /\ target = S("valgrind")
    /\ passed.disabled_tests = <<S("tls")>>
    /\ Len(SkipList(result.run_test_command)) = Len(slow_tests) + 2

\* targets that are built but never tested on the CI host
Untested ==
    { S("docs"), S("baremetal"), S("emscripten"), cross_ios_arm64,
      cross_android_arm32, cross_android_arm64 }

\* a command that runs the test binary
IsTestInvocation(cmd) ==
    \E i \in 1..Len(cmd) : BaseName(cmd[i]) \in {"botan-test", "botan-test.exe"}

\* C7: for docs, baremetal, emscripten and the iOS and Android cross targets
\* every plan has a null test command, and main's command list holds no
\* test invocation.
C7_UntestedTargets ==
    target \in Untested
    => /\ Returned => result.run_test_command = None
       /\ \A i \in 1..Len(cmds) : ~IsTestInvocation(cmds[i])

C7_Witness ==
    /\ target = S("docs") /\ Returned /\ pc = "run" /\ cmds # <<>>
    /\ options.use_gdb /\ passed.disabled_tests # <<>>
    /\ result.run_test_command = None

\* C8: an OS outside linux, osx, windows, freebsd makes determine_flags raise
\* to its caller, and main ends with the error reported, a non-zero exit
\* status and no exception of another kind.
C8_UnknownOsRaises ==
    (ncalls > 0 /\ options.os \notin valid_os)
    => /\ Raised
       /\ pc = "exited" => (exit_status > 0 /\ uncaught = result.exc)

\* C9: a call of determine_flags, returning or raising, leaves the caller's
\* disabled-tests and extra-cxxflags lists as they were passed.
C9_InputsUntouched ==
    ncalls > 0
    => /\ disabled_tests = passed.disabled_tests
       /\ extra_cxxflags = passed.extra_cxxflags

\* C10: build_targets yields the library flavour of the first matching rule
\* (target rules before OS rules), then cli and tests, then bogo_shim exactly
\* for coverage.
C10_ArtifactRules ==
    artifacts # no_artifacts
    => LET t == artifacts.target
           o == artifacts.target_os
           out == artifacts.out
           n == Len(out)
           tail == IF t = S("coverage") THEN 3 ELSE 2
           flavor == SubSeq(out, 1, n - tail)
       IN /\ n > tail
          /\ SubSeq(out, n - tail + 1, n - tail + 2) = <<S("cli"), S("tests")>>
          /\ (out[n] = S("bogo_shim")) <=> (t = S("coverage"))
          /\ t \in {S("shared"), S("minimized"), S("bsi"), S("nist")}
                => flavor = <<S("shared")>>
          /\ t \in {S("static"), S("fuzzers"), S("baremetal"), S("emscripten")}
                => flavor = <<S("static")>>
          /\ t \notin {S("shared"), S("minimized"), S("bsi"), S("nist"), S("static"),
                        S("fuzzers"), S("baremetal"), S("emscripten")}
                => /\ o = S("windows") => flavor = <<S("shared")>>
                   /\ o \in {S("ios"), S("mingw")} => flavor = <<S("static")>>
                   /\ o \notin {S("windows"), S("ios"), S("mingw")}
                         => flavor = <<S("shared"), S("static")>>

C10_Witness ==
    /\ artifacts.target = S("shared") /\ artifacts.target_os = S("mingw")
    /\ artifacts.out = <<S("shared"), S("cli"), S("tests")>>

\* the flags lines 265-294 add for native targets
NativeOnlyFlags ==
    { S("--with-bzip2"), S("--with-sqlite"), S("--with-zlib"), S("--with-commoncrypto"),
      S("--with-boost"), S("--with-external-includedir"), S("--with-lzma"),
      S("--with-tpm") }

\* C11: a plan for a target named cross-... holds none of the native-only
\* flags, and its test command neither runs the online tests nor names a
\* PKCS11 library.
C11_CrossHasNoNativeFlags ==
    (Returned /\ is_cross_target(target))
    => /\ Range(result.flags) \cap NativeOnlyFlags = {}
       /\ result.run_test_command # None
             => /\ IndexOf(CommandLine(result.run_test_command),
                           "--run-online-tests", 1) = 0
                /\ IndexOf(CommandLine(result.run_test_command),
                           "--pkcs11-lib=", 1) = 0

C11_Witness ==
    /\ Returned /\ target = cross_arm64 /\ options.os = S("linux")
    /\ options.pkcs11_lib # NoneStr
    /\ result.run_test_command # None
    /\ S("--cpu=aarch64") \in Range(result.flags)

\* the compiler binary target-specific resolution pins, <<>> where it pins none
PinnedCompiler ==
    IF target = S("baremetal") THEN S("arm-none-eabi-c++")
    ELSE IF target = cross_win64 THEN S("x86_64-w64-mingw32-g++")
    ELSE IF target = cross_arm32 THEN S("arm-linux-gnueabihf-g++")
    ELSE IF target = cross_arm64 THEN S("aarch64-linux-gnu-g++")
    ELSE IF target = cross_ppc32 THEN S("powerpc-linux-gnu-g++")
    ELSE IF target = cross_ppc64 THEN S("powerpc64le-linux-gnu-g++")
    ELSE IF target = cross_mips64 THEN S("mips64-linux-gnuabi64-g++")
    ELSE <<>>

\* C12: in every plan the last flag, and no other, is '--cc-bin=<binary>';
\* the binary is the one target resolution pinned (baremetal, cross-win64,
\* the Linux cross targets, the NDK clang++ for Android) and otherwise the
\* binary the caller supplied.
C12_CompilerBinaryLast ==
    Returned
    => LET flags == result.flags
           last == flags[Len(flags)]
           binary == Tail(last)
       IN /\ last[1] = "--cc-bin="
          /\ \A i \in 1..(Len(flags) - 1) : flags[i][1] # "--cc-bin="
          /\ IF target \in {cross_android_arm32, cross_android_arm64}
             THEN /\ SubSeq(binary, 1, Len(env.ANDROID_NDK)) = env.ANDROID_NDK
                  /\ BaseName(binary) = "-clang++"
                  /\ (target = cross_android_arm32)
                        <=> IndexOf(binary, "armv7a-linux-androideabi", 1) > 0
                  /\ (target = cross_android_arm64)
                        <=> IndexOf(binary, "aarch64-linux-android", 1) > 0
             ELSE IF PinnedCompiler # <<>> THEN binary = PinnedCompiler
             ELSE binary = default_cc_bin(options.cc)

C12_Witness ==
    /\ Returned /\ target = cross_win64 /\ options.cc = S("clang")
    /\ result.flags[Len(result.flags)] = <<"--cc-bin=", "x86_64-w64-mingw32-g++">>
    /\ Len(result.flags) > 5

\* a resolution error has been reported: the unknown-target or unknown-OS
\* message was printed, or main ended in the unknown-cross-target or the
\* missing-ANDROID_NDK exception
ResolutionErrorReported ==
    \/ \E i \in 1..Len(stdout) : stdout[i][1] \in {"Unknown target '", "Error unknown OS "}
    \/ UnknownCrossTarget(uncaught)
    \/ MissingAndroidNDK(uncaught)

\* what has been spawned is the beginning of the finished command list, in order
SpawnedInListOrder ==
    /\ Len(spawned) <= Len(cmds)
    /\ \A i \in 1..Len(spawned) : spawned[i] = popen_argv(cmds[i])
    /\ spawned # <<>> => /\ pc \in {"run", "exited"}
                         /\ Len(spawned) \in {cmd_index - 1, cmd_index}

\* the first process spawned is the configure script
ConfigureSpawnedFirst ==
    /\ Len(spawned[1]) >= 2
    /\ BaseName(spawned[1][2]) = "configure.py"

\* C13 as stated: no process has been spawned when a resolution error is
\* reported, and processes are spawned in the order of the finished command
\* list, the configure command first.
C13_EagerErrorsConfigureFirst ==
    /\ ResolutionErrorReported => spawned = <<>>
    /\ SpawnedInListOrder
    /\ spawned # <<>> => ConfigureSpawnedFirst

\* C13 amended: the same, the configure command being first for every target
\* but lint, whose command list is the pylint command alone.
C13_EagerErrorsConfigureFirstButLint ==
    /\ ResolutionErrorReported => spawned = <<>>
    /\ SpawnedInListOrder
    /\ spawned # <<>>
         => IF target = S("lint")
            THEN Len(cmds) = 1 /\ SubSeq(spawned[1], 1, 3) = <<S("python3"), S("-m"), S("pylint")>>
            ELSE ConfigureSpawnedFirst

C13_Witness ==
    /\ pc = "exited" /\ MissingAndroidNDK(uncaught)
    /\ target = cross_android_arm64 /\ ~options.dry_run
    /\ tmpdirs = 1 /\ spawned = <<>> /\ exit_status = 1

====
